---- MODULE Spec2Model ----
(***************************************************************************)
(* Model of the motion-gated cascading bird detection pipeline of          *)
(* python-code/main.py (class BirdDetectionCamera).                        *)
(*                                                                         *)
(* Units: box coordinates reported by the detector are floats; they are    *)
(* represented in half pixels (PyInt truncates them to whole pixels, as    *)
(* int() does).  Confidences are represented in thousandths.  A Python     *)
(* float quotient is represented as the exact fraction [num, den].         *)
(***************************************************************************)
EXTENDS Integers, Sequences, FiniteSets, TLC

\* ------------------------------------------------------------------------
\* Bounds of the model
\* ------------------------------------------------------------------------
MaxTicks == 5                 \* frames captured in one run
TimedTicks == 4               \* frames captured in one run that is timed
MaxElapsed == 2               \* half seconds that pass during a timed run
LambdaTicks == 3              \* frames captured in a run the mailer reads
DurationTicks == 3            \* frames captured in a run of a given duration

\* ------------------------------------------------------------------------
\* Program constants (main.py CONFIG section and upload_to_s3)
\* ------------------------------------------------------------------------
BIRD_CONFIDENCE == 150        \* 0.15, in thousandths
MIN_CONTOUR_AREA == 800
MAX_CONTOUR_AREA == 15000
MOTION_PERSISTENCE == 2
FRAME_WIDTH == 1920
FRAME_HEIGHT == 1080
BOX_PADDING == 40
MIN_BOX_AREA == 1500
SAVE_LOCAL_BACKUP == TRUE
SAVE_ALL_MOTION == TRUE

None == <<>>                  \* Python None; a value v that is set is <<v>>

Max(a, b) == IF a >= b THEN a ELSE b
Min(a, b) == IF a <= b THEN a ELSE b

\* int(): truncation of a non-negative float given in half pixels
PyInt(v) == v \div 2

\* ------------------------------------------------------------------------
\* Inputs: camera scenes, contours found by cv2.findContours, detector output
\* ------------------------------------------------------------------------
Scenes == {0, 1}              \* pixel contents camera.capture_array can return

\* contours with cv2.contourArea and cv2.boundingRect (x, y, w, h)
cPatch  == [area |-> 1600,  x |-> 480,  y |-> 480,  w |-> 40,  h |-> 40]
cCorner == [area |-> 841,   x |-> 0,    y |-> 0,    w |-> 60,  h |-> 18]
cEdge   == [area |-> 14999, x |-> 1800, y |-> 1000, w |-> 120, h |-> 80]
cLow    == [area |-> 800,   x |-> 300,  y |-> 300,  w |-> 40,  h |-> 20]
cHigh   == [area |-> 15000, x |-> 900,  y |-> 200,  w |-> 150, h |-> 100]

ContourLists ==
    { <<cPatch>>, <<cCorner, cPatch>>, <<cLow, cEdge, cHigh>>, <<cLow, cHigh>> }

\* cv2.absdiff of two identical frames is zero everywhere: no contour
Contours(f1, f2) == IF f1 = f2 THEN { <<>> } ELSE ContourLists

\* detections (box.xyxy in half pixels, box.conf in thousandths)
dStub  == [x1 |-> 200,  y1 |-> 200,  x2 |-> 300,  y2 |-> 280,  conf |-> 500]
dExact == [x1 |-> 3781, y1 |-> 2060, x2 |-> 3840, y2 |-> 2160, conf |-> 900]
dSmall == [x1 |-> 0,    y1 |-> 0,    x2 |-> 2998, y2 |-> 3,    conf |-> 300]
dFaint == [x1 |-> 40,   y1 |-> 40,   x2 |-> 160,  y2 |-> 160,  conf |-> 100]

DetectionLists ==
    { <<>>, <<dStub>>, <<dStub, dSmall, dExact>>, <<dSmall>>, <<dFaint>> }

\* self.model(image, classes=[14], conf=c): the boxes of results[0], all of
\* confidence at least c, or an exception
Detector(c) ==
    { [raised |-> FALSE, boxes |-> l] :
        l \in { d \in DetectionLists : \A i \in 1..Len(d) : d[i].conf >= c } }
    \cup { [raised |-> TRUE, boxes |-> <<>>] }

\* ------------------------------------------------------------------------
\* detect_motion
\* ------------------------------------------------------------------------
\* variant of InBand: the bounds themselves are accepted
InBand_Inclusive(c) ==
    MIN_CONTOUR_AREA <= c.area /\ c.area <= MAX_CONTOUR_AREA

InBand(c) == MIN_CONTOUR_AREA < c.area /\ c.area < MAX_CONTOUR_AREA

PadRegion(c) ==
    LET padding == Max(c.w, c.h) \div 2
    IN  << Max(0, c.x - padding),
           Max(0, c.y - padding),
           Min(FRAME_WIDTH, c.x + c.w + padding),
           Min(FRAME_HEIGHT, c.y + c.h + padding) >>

detect_motion(contours) ==
    LET accepted == SelectSeq(contours, InBand)
    IN  [ has_motion |-> Len(accepted) > 0,
          areas      |-> [i \in 1..Len(accepted) |-> accepted[i].area],
          bboxes     |-> [i \in 1..Len(accepted) |-> PadRegion(accepted[i])] ]

\* ------------------------------------------------------------------------
\* persistence filter (run)
\* ------------------------------------------------------------------------
\* variant of PushHistory: the newest entry is dropped on overflow
PushHistory_DropNewest(h, m) ==
    LET a == Append(h, m)
    IN  IF Len(a) > 3 THEN SubSeq(a, 1, 3) ELSE a

\* motion_history.append(has_motion); if len > 3: pop(0)
PushHistory(h, m) ==
    LET a == Append(h, m)
    IN  IF Len(a) > 3 THEN Tail(a) ELSE a

RECURSIVE CountTrue(_)
CountTrue(h) ==
    IF h = <<>> THEN 0
    ELSE (IF Head(h) THEN 1 ELSE 0) + CountTrue(Tail(h))

\* variants of Persistent: strict comparison; full window required
Persistent_Strict(h) == CountTrue(h) > MOTION_PERSISTENCE

Persistent_FullWindow(h) == Len(h) = 3 /\ CountTrue(h) >= MOTION_PERSISTENCE

\* variant of Persistent: one check short of the configured count is enough
Persistent_OneShort(h) == CountTrue(h) >= MOTION_PERSISTENCE - 1

\* motion_history.count(True) >= MOTION_PERSISTENCE
Persistent(h) == CountTrue(h) >= MOTION_PERSISTENCE

\* variants of Gate: one of the two conditions dropped
Gate_MotionOnly(persistent, motion) == motion

Gate_PersistentOnly(persistent, motion) == persistent

\* if persistent_motion and has_motion:
\* variant of Gate: either condition is enough
Gate_Either(persistent, motion) == persistent \/ motion

Gate(persistent, motion) == persistent /\ motion

\* ------------------------------------------------------------------------
\* detect_bird: the cascade
\* ------------------------------------------------------------------------
RELAXED_CONFIDENCE == (BIRD_CONFIDENCE * 6) \div 10     \* BIRD_CONFIDENCE * 0.6

\* variant of FullNext: the enhanced frame is tried whatever step 1 found
FullNext_Always(boxes, regions) ==
    IF regions # <<>> THEN "detect_enhanced" ELSE "return"

\* after the full-frame invocation: enhance, or fall through to the return
FullNext(boxes, regions) ==
    IF Len(boxes) = 0 /\ regions # <<>> THEN "detect_enhanced" ELSE "return"

\* after the enhanced invocation: return it, or try the crops
EnhancedNext(boxes) ==
    IF Len(boxes) > 0 THEN "return" ELSE "detect_crops"

\* variant of TooSmall: both dimensions must be small
TooSmall_Both(bbox) == (bbox[4] - bbox[2]) < 50 /\ (bbox[3] - bbox[1]) < 50

\* cropped.shape[0] < 50 or cropped.shape[1] < 50
TooSmall(bbox) == (bbox[4] - bbox[2]) < 50 \/ (bbox[3] - bbox[1]) < 50

\* what detect_bird returns when a crop invocation found a bird
CropFoundResult(full, enhanced) == enhanced

\* ------------------------------------------------------------------------
\* upload_to_s3: validation of the detections
\* ------------------------------------------------------------------------
BoxArea(d) ==
    (PyInt(d.x2) - PyInt(d.x1)) * (PyInt(d.y2) - PyInt(d.y1))

\* variant of Keep: the area test applied to the padded box
Keep_Padded(d) ==
    LET px1 == Max(0, PyInt(d.x1) - BOX_PADDING)
        py1 == Max(0, PyInt(d.y1) - BOX_PADDING)
        px2 == Min(FRAME_WIDTH, PyInt(d.x2) + BOX_PADDING)
        py2 == Min(FRAME_HEIGHT, PyInt(d.y2) + BOX_PADDING)
    IN  ~((px2 - px1) * (py2 - py1) < MIN_BOX_AREA)

\* if box_area < MIN_BOX_AREA: continue
Keep(d) == ~(BoxArea(d) < MIN_BOX_AREA)

\* variant of ValidBoxes: the list keeps the padded box that is drawn
ValidBoxes_Padded(boxes) ==
    LET kept == SelectSeq(boxes, Keep)
    IN  [i \in 1..Len(kept) |->
            [x1 |-> 2 * Max(0, PyInt(kept[i].x1) - BOX_PADDING),
             y1 |-> 2 * Max(0, PyInt(kept[i].y1) - BOX_PADDING),
             x2 |-> 2 * Min(FRAME_WIDTH, PyInt(kept[i].x2) + BOX_PADDING),
             y2 |-> 2 * Min(FRAME_HEIGHT, PyInt(kept[i].y2) + BOX_PADDING),
             conf |-> kept[i].conf]]

ValidBoxes(boxes) == SelectSeq(boxes, Keep)

DisplayBox(d) ==
    << Max(0, PyInt(d.x1) - BOX_PADDING),
       Max(0, PyInt(d.y1) - BOX_PADDING),
       Min(FRAME_WIDTH, PyInt(d.x2) + BOX_PADDING),
       Min(FRAME_HEIGHT, PyInt(d.y2) + BOX_PADDING) >>

RECURSIVE SumConf(_)
SumConf(boxes) ==
    IF boxes = <<>> THEN 0 ELSE Head(boxes).conf + SumConf(Tail(boxes))

\* sum(confidences) / len(confidences) if confidences else 0
AvgConf(valid) ==
    IF Len(valid) > 0 THEN [num |-> SumConf(valid), den |-> Len(valid)]
    ELSE [num |-> 0, den |-> 1]

\* variant of UploadStats: the confidences of all raw detections are averaged
UploadStats_AllBoxes(boxes) ==
    LET valid == ValidBoxes(boxes)
    IN  [ valid     |-> valid,
          annotated |-> [i \in 1..Len(valid) |-> DisplayBox(valid[i])],
          num_birds |-> Len(valid),
          avg_conf  |-> AvgConf(boxes) ]

\* valid_boxes, the boxes drawn, num_birds and avg_conf of upload_to_s3
UploadStats(boxes) ==
    LET valid == ValidBoxes(boxes)
    IN  [ valid     |-> valid,
          annotated |-> [i \in 1..Len(valid) |-> DisplayBox(valid[i])],
          num_birds |-> Len(valid),
          avg_conf  |-> AvgConf(valid) ]

\* ------------------------------------------------------------------------
\* upload_to_s3: names.  The clock counts half seconds; day 1 starts at
\* 172800.
\* ------------------------------------------------------------------------
RunStart == 172800 - 2        \* start_time: 23:59:59.0 of day 0

\* now.strftime("%m-%d-%Y"): the calendar day
DateOf(t) == t \div 172800

\* variant of StampOf: the stamp resolves half seconds
StampOf_HalfSecond(t) == t

\* now.strftime("%Y%m%d_%H%M%S"): the time cut to whole seconds
StampOf(t) == t \div 2

\* f"{avg_conf:.2f}": hundredths, rounded to nearest, ties to even
Round2(avg) ==
    LET unit == 10 * avg.den
        q == avg.num \div unit
        r == avg.num % unit
    IN  IF 2 * r > unit THEN q + 1
        ELSE IF 2 * r < unit THEN q
        ELSE IF q % 2 = 0 THEN q ELSE q + 1

\* f"bird_{timestamp}_count_{num_birds}_conf_{avg_conf:.2f}.jpg"
FileName(t, n, avg) ==
    [stamp |-> StampOf(t), count |-> n, conf |-> Round2(avg), ext |-> "jpg"]

\* f"{date_folder}/{filename}"
S3Key(t, fname) == [date_folder |-> DateOf(t), filename |-> fname]

\* put / write: an object stored under a name replaces the one stored there
Store(objects, name, body) ==
    {o \in objects : o.name # name} \cup {[name |-> name, size |-> 1, body |-> body]}

\* variant of NextPrev: the first frame stays the reference frame
NextPrev_KeepFirst(prev, cur) == IF prev = None THEN cur ELSE prev

\* prev_frame = frame_bgr.copy()
NextPrev(prev, cur) == cur

\* ------------------------------------------------------------------------
\* State of BirdDetectionCamera.run
\* ------------------------------------------------------------------------
VARIABLES
    pc,                 \* position of the run loop
    exc,                \* TRUE once an exception propagates out of the loop
    camera_running,     \* camera started and not yet stopped
    ticks,              \* frames captured so far
    frame,              \* frame_bgr of the tick in progress (None between ticks)
    prev_frame,
    motion_history,
    checks, motion_detections, bird_detections,
    has_motion, areas, bboxes, persistent_motion,
    results,            \* detect_bird: full-frame result
    enhanced_results,   \* detect_bird: enhanced full-frame result
    crop_idx,           \* detect_bird: position in the loop over bounding_boxes
    result,             \* what detect_bird returned
    valid_boxes, annotated, num_birds, avg_conf,
    filename, s3_key,   \* upload_to_s3: names derived from datetime.now()
    now,                \* the wall clock, in half seconds
    s3_objects,         \* objects stored in the bucket
    local_files,        \* files in LOCAL_BACKUP_DIR
    motion_files,       \* number of images written to MOTION_DIR
    \* history variables
    calls,              \* detector invocations of the tick in progress
    all_motion,         \* has_motion of every motion check of the run
    sightings,          \* Sightings emitted, in order
    stub_only,          \* every detector invocation so far returned <<dStub>>
    capture_time,       \* clock value at the capture of the frame in progress
    contours,           \* contours found by the motion check in progress
    compared,           \* ids of the two frames of the motion check in progress
    io_log,             \* writes attempted by the tick in progress, in order
    \* lambda_handler (lambda_function.py), one invocation at a time
    handler,            \* position of lambda_handler
    prefix,             \* the date folder it lists
    response,           \* Contents of the list_objects_v2 response
    bird_images,        \* the listed objects it keeps
    selected_image,     \* random.choice(bird_images)
    image_data,         \* body read by get_object
    sent,               \* the email sent: key and data of the attachment
    statusCode,         \* statusCode of the value returned
    \* run: its argument and its release of the camera
    duration_hours,     \* None, or the duration in the unit of the clock
    stops               \* number of calls of camera.stop()

frameVars == <<ticks, frame, prev_frame>>
motVars == <<motion_history, checks, motion_detections, has_motion, areas,
             bboxes, persistent_motion, all_motion>>
detVars == <<results, enhanced_results, crop_idx, result, calls, stub_only>>
upVars == <<valid_boxes, annotated, num_birds, avg_conf, filename, s3_key>>
sinkVars == <<s3_objects, local_files, sightings, bird_detections>>
envVars == <<exc, camera_running, motion_files>>
tickVars == <<capture_time, contours, compared, io_log>>
clockVars == <<now>>
lambdaVars == <<handler, prefix, response, bird_images, selected_image,
                image_data, sent, statusCode>>

exitVars == <<duration_hours, stops>>

vars == <<pc, frameVars, motVars, detVars, upVars, sinkVars, envVars, tickVars,
          clockVars, lambdaVars, exitVars>>

\* camera.run(duration_hours=4), in the unit of the clock
MainDuration == <<4 * 7200>>

\* the run, called for hours, and the mailer before their first step, the
\* bucket holding bucket
Start(bucket, hours) ==
    /\ pc = "loop_top"
    /\ exc = FALSE
    /\ camera_running = TRUE
    /\ ticks = 0
    /\ frame = None
    /\ prev_frame = None
    /\ motion_history = <<>>
    /\ checks = 0
    /\ motion_detections = 0
    /\ bird_detections = 0
    /\ has_motion = FALSE
    /\ areas = <<>>
    /\ bboxes = <<>>
    /\ persistent_motion = FALSE
    /\ results = None
    /\ enhanced_results = None
    /\ crop_idx = 0
    /\ result = None
    /\ valid_boxes = <<>>
    /\ annotated = <<>>
    /\ num_birds = 0
    /\ avg_conf = [num |-> 0, den |-> 1]
    /\ s3_objects = bucket
    /\ local_files = {}
    /\ motion_files = 0
    /\ calls = <<>>
    /\ all_motion = <<>>
    /\ sightings = <<>>
    /\ stub_only = TRUE
    /\ filename = None
    /\ s3_key = None
    /\ now = RunStart
    /\ capture_time = None
    /\ contours = <<>>
    /\ compared = None
    /\ io_log = <<>>
    /\ handler = "idle"
    /\ prefix = None
    /\ response = None
    /\ bird_images = {}
    /\ selected_image = None
    /\ image_data = None
    /\ sent = None
    /\ statusCode = None
    /\ duration_hours = hours
    /\ stops = 0

Init == Start({}, MainDuration)

\* elapsed_hours >= duration_hours: break.  The clock reading that decides
\* the comparison is not followed here: the break may come at any loop top
DurationComplete ==
    /\ pc = "loop_top"
    /\ pc' = "finally"
    /\ UNCHANGED <<frameVars, motVars, detVars, upVars, sinkVars, envVars>>
    /\ UNCHANGED <<tickVars, clockVars>>
    /\ UNCHANGED lambdaVars
    /\ UNCHANGED exitVars

\* frame = self.camera.capture_array(); if prev_frame is not None: ...
Capture ==
    /\ pc = "loop_top"
    /\ ticks < MaxTicks
    /\ \E scene \in Scenes : frame' = <<[id |-> ticks + 1, scene |-> scene]>>
    /\ capture_time' = <<now>>
    /\ UNCHANGED <<contours, compared, io_log, clockVars>>
    /\ ticks' = ticks + 1
    /\ pc' = IF prev_frame # None THEN "motion" ELSE "update_prev"
    /\ UNCHANGED <<prev_frame, motVars, detVars, upVars, sinkVars, envVars>>
    /\ UNCHANGED lambdaVars
    /\ UNCHANGED exitVars

\* detect_motion, motion history, persistence check and the gate
MotionCheck ==
    /\ pc = "motion"
    /\ \E found \in Contours(prev_frame[1].scene, frame[1].scene) :
         LET dm == detect_motion(found)
             h  == PushHistory(motion_history, dm.has_motion)
             go == Gate(Persistent(h), dm.has_motion)
         IN  /\ checks' = checks + 1
             /\ contours' = found
             /\ compared' = <<prev_frame[1].id, frame[1].id>>
             /\ has_motion' = dm.has_motion
             /\ areas' = dm.areas
             /\ bboxes' = dm.bboxes
             /\ motion_history' = h
             /\ all_motion' = Append(all_motion, dm.has_motion)
             /\ persistent_motion' = Persistent(h)
             /\ motion_detections' = motion_detections + (IF go THEN 1 ELSE 0)
             /\ pc' = IF go THEN "save_motion" ELSE "update_prev"
    /\ UNCHANGED <<frameVars, detVars, upVars, sinkVars, envVars>>
    /\ UNCHANGED <<capture_time, io_log, clockVars>>
    /\ UNCHANGED lambdaVars
    /\ UNCHANGED exitVars

\* save_motion_image
SaveMotion ==
    /\ pc = "save_motion"
    /\ motion_files' = IF SAVE_ALL_MOTION THEN motion_files + 1 ELSE motion_files
    /\ io_log' = IF SAVE_ALL_MOTION
                 THEN Append(io_log, [op |-> "motion", ok |-> TRUE])
                 ELSE io_log
    /\ UNCHANGED <<capture_time, contours, compared, clockVars>>
    /\ pc' = "detect_full"
    /\ UNCHANGED <<frameVars, motVars, detVars, upVars, sinkVars, exc,
                   camera_running>>
    /\ UNCHANGED lambdaVars
    /\ UNCHANGED exitVars

Call(step, region, out) ==
    [step |-> step, region |-> region, n |-> Len(out.boxes),
     raised |-> out.raised]

IsStub(out) == ~out.raised /\ out.boxes = <<dStub>>

\* an exception of self.model leaves detect_bird and the while loop
Propagate ==
    /\ pc' = "finally"
    /\ exc' = TRUE
    /\ UNCHANGED <<results, enhanced_results, crop_idx, result>>

\* results = self.model(frame, ...)
DetectFull ==
    /\ pc = "detect_full"
    /\ \E out \in Detector(BIRD_CONFIDENCE) :
         /\ calls' = Append(calls, Call("full", 0, out))
         /\ stub_only' = (stub_only /\ IsStub(out))
         /\ IF out.raised THEN Propagate
            ELSE /\ results' = <<out.boxes>>
                 /\ exc' = exc
                 /\ UNCHANGED <<enhanced_results, crop_idx>>
                 /\ IF FullNext(out.boxes, bboxes) = "detect_enhanced"
                    THEN pc' = "detect_enhanced" /\ result' = result
                    ELSE pc' = "check_result" /\ result' = <<out.boxes>>
    /\ UNCHANGED <<frameVars, motVars, upVars, sinkVars, camera_running,
                   motion_files>>
    /\ UNCHANGED <<tickVars, clockVars>>
    /\ UNCHANGED lambdaVars
    /\ UNCHANGED exitVars

\* enhanced_results = self.model(enhanced, ...)
DetectEnhanced ==
    /\ pc = "detect_enhanced"
    /\ \E out \in Detector(BIRD_CONFIDENCE) :
         /\ calls' = Append(calls, Call("enhanced", 0, out))
         /\ stub_only' = (stub_only /\ IsStub(out))
         /\ IF out.raised THEN Propagate
            ELSE /\ enhanced_results' = <<out.boxes>>
                 /\ exc' = exc
                 /\ results' = results
                 /\ IF EnhancedNext(out.boxes) = "return"
                    THEN /\ pc' = "check_result"
                         /\ result' = <<out.boxes>>
                         /\ crop_idx' = crop_idx
                    ELSE /\ pc' = "detect_crops"
                         /\ result' = result
                         /\ crop_idx' = 1
    /\ UNCHANGED <<frameVars, motVars, upVars, sinkVars, camera_running,
                   motion_files>>
    /\ UNCHANGED <<tickVars, clockVars>>
    /\ UNCHANGED lambdaVars
    /\ UNCHANGED exitVars

\* for bbox in bounding_boxes: crop too small: continue
CropSkip ==
    /\ pc = "detect_crops"
    /\ crop_idx <= Len(bboxes)
    /\ TooSmall(bboxes[crop_idx])
    /\ crop_idx' = crop_idx + 1
    /\ UNCHANGED <<pc, results, enhanced_results, result, calls, stub_only,
                   frameVars, motVars, upVars, sinkVars, envVars>>
    /\ UNCHANGED <<tickVars, clockVars>>
    /\ UNCHANGED lambdaVars
    /\ UNCHANGED exitVars

\* crop_results = self.model(cropped, conf=BIRD_CONFIDENCE * 0.6)
CropDetect ==
    /\ pc = "detect_crops"
    /\ crop_idx <= Len(bboxes)
    /\ ~TooSmall(bboxes[crop_idx])
    /\ \E out \in Detector(RELAXED_CONFIDENCE) :
         /\ calls' = Append(calls, Call("crop", crop_idx, out))
         /\ stub_only' = (stub_only /\ IsStub(out))
         /\ IF out.raised THEN Propagate
            ELSE /\ exc' = exc
                 /\ UNCHANGED <<results, enhanced_results>>
                 /\ IF Len(out.boxes) > 0
                    THEN /\ pc' = "check_result"
                         /\ result' = <<CropFoundResult(results[1],
                                                       enhanced_results[1])>>
                         /\ crop_idx' = crop_idx
                    ELSE /\ pc' = pc
                         /\ result' = result
                         /\ crop_idx' = crop_idx + 1
    /\ UNCHANGED <<frameVars, motVars, upVars, sinkVars, camera_running,
                   motion_files>>
    /\ UNCHANGED <<tickVars, clockVars>>
    /\ UNCHANGED lambdaVars
    /\ UNCHANGED exitVars

\* the loop over bounding_boxes is exhausted: return results[0]
CascadeExhausted ==
    /\ pc = "detect_crops"
    /\ crop_idx > Len(bboxes)
    /\ result' = results
    /\ pc' = "check_result"
    /\ UNCHANGED <<results, enhanced_results, crop_idx, calls, stub_only,
                   frameVars, motVars, upVars, sinkVars, envVars>>
    /\ UNCHANGED <<tickVars, clockVars>>
    /\ UNCHANGED lambdaVars
    /\ UNCHANGED exitVars

\* run: len(result.boxes) == 0: "Motion but no birds detected"
NoBirds ==
    /\ pc = "check_result"
    /\ Len(result[1]) = 0
    /\ pc' = "update_prev"
    /\ UNCHANGED <<frameVars, motVars, detVars, upVars, sinkVars, envVars>>
    /\ UNCHANGED <<tickVars, clockVars>>
    /\ UNCHANGED lambdaVars
    /\ UNCHANGED exitVars

\* upload_to_s3 up to "if num_birds == 0: return None, 0, 0, None"
Validate ==
    /\ pc = "check_result"
    /\ Len(result[1]) > 0
    /\ LET st == UploadStats(result[1])
       IN  /\ valid_boxes' = st.valid
           /\ annotated' = st.annotated
           /\ num_birds' = st.num_birds
           /\ avg_conf' = st.avg_conf
           /\ filename' = <<FileName(now, st.num_birds, st.avg_conf)>>
           /\ s3_key' = IF st.num_birds = 0 THEN None
                        ELSE <<S3Key(now, FileName(now, st.num_birds, st.avg_conf))>>
           /\ pc' = IF st.num_birds = 0 THEN "update_prev" ELSE "s3_upload"
    /\ UNCHANGED <<frameVars, motVars, detVars, sinkVars, envVars>>
    /\ UNCHANGED <<tickVars, clockVars>>
    /\ UNCHANGED lambdaVars
    /\ UNCHANGED exitVars

\* the name under which the Sighting of this tick is stored
SightingOf(t, n, avg) == [tick |-> t, count |-> n, conf |-> avg]

\* the Sighting as recorded: what it reports, where it was stored, when its
\* frame was captured and when upload_to_s3 read the clock
Emitted(sighting, key, path, captured, stored) ==
    [tick |-> sighting.tick, count |-> sighting.count, conf |-> sighting.conf,
     s3_key |-> key, local_path |-> path, captured |-> captured,
     stored |-> stored]

\* variant of AfterUpload: a failed upload ends upload_to_s3
AfterUpload_GiveUp(ok) == IF ok THEN "local_backup" ELSE "update_prev"

\* after the try block, whether or not the upload threw: the local backup
AfterUpload(ok) == "local_backup"

\* try: self.s3_client.upload_fileobj(...) except Exception: print
S3Upload ==
    /\ pc = "s3_upload"
    /\ \E ok \in BOOLEAN :
         /\ s3_objects' = IF ok
                          THEN Store(s3_objects, s3_key[1],
                                     SightingOf(ticks, num_birds, avg_conf))
                          ELSE s3_objects
         /\ io_log' = Append(io_log, [op |-> "s3", ok |-> ok])
         /\ pc' = AfterUpload(ok)
    /\ UNCHANGED <<capture_time, contours, compared, clockVars>>
    /\ UNCHANGED <<local_files, sightings, bird_detections, frameVars, motVars,
                   detVars, upVars, envVars>>
    /\ UNCHANGED lambdaVars
    /\ UNCHANGED exitVars

\* cv2.imwrite(local_path), return to run, bird_detections += 1
LocalBackup ==
    /\ pc = "local_backup"
    /\ \E ok \in BOOLEAN :
         /\ local_files' = IF SAVE_LOCAL_BACKUP /\ ok
                           THEN Store(local_files, filename[1],
                                      SightingOf(ticks, num_birds, avg_conf))
                           ELSE local_files
         /\ io_log' = IF SAVE_LOCAL_BACKUP
                      THEN Append(io_log, [op |-> "local", ok |-> ok])
                      ELSE io_log
    /\ sightings' = Append(sightings,
                           Emitted(SightingOf(ticks, num_birds, avg_conf),
                                   s3_key[1], filename[1], capture_time[1],
                                   now))
    /\ UNCHANGED <<capture_time, contours, compared, clockVars>>
    /\ bird_detections' = IF num_birds > 0 THEN bird_detections + 1
                          ELSE bird_detections
    /\ pc' = "update_prev"
    /\ UNCHANGED <<s3_objects, frameVars, motVars, detVars, upVars, envVars>>
    /\ UNCHANGED lambdaVars
    /\ UNCHANGED exitVars

\* prev_frame = frame_bgr.copy(); time.sleep(CHECK_INTERVAL)
UpdatePrev ==
    /\ pc = "update_prev"
    /\ prev_frame' = NextPrev(prev_frame, frame)
    /\ frame' = None
    /\ filename' = None
    /\ s3_key' = None
    /\ capture_time' = None
    /\ contours' = <<>>
    /\ compared' = None
    /\ io_log' = <<>>
    /\ UNCHANGED clockVars
    /\ has_motion' = FALSE
    /\ areas' = <<>>
    /\ bboxes' = <<>>
    /\ persistent_motion' = FALSE
    /\ results' = None
    /\ enhanced_results' = None
    /\ crop_idx' = 0
    /\ result' = None
    /\ calls' = <<>>
    /\ valid_boxes' = <<>>
    /\ annotated' = <<>>
    /\ num_birds' = 0
    /\ avg_conf' = [num |-> 0, den |-> 1]
    /\ pc' = "loop_top"
    /\ UNCHANGED <<ticks, motion_history, checks, motion_detections, all_motion,
                   stub_only, sinkVars, envVars>>
    /\ UNCHANGED lambdaVars
    /\ UNCHANGED exitVars

\* finally: self.camera.stop()
Finally ==
    /\ pc = "finally"
    /\ camera_running' = FALSE
    /\ pc' = "done"
    /\ UNCHANGED <<exc, motion_files, frameVars, motVars, detVars, upVars,
                   sinkVars>>
    /\ UNCHANGED <<tickVars, clockVars>>
    /\ UNCHANGED lambdaVars
    /\ stops' = stops + 1
    /\ UNCHANGED duration_hours

\* the wall clock advances while the loop is about to read it
TimePasses ==
    /\ pc \in {"loop_top", "check_result"}
    /\ now - RunStart < MaxElapsed
    /\ now' = now + 1
    /\ UNCHANGED <<pc, frameVars, motVars, detVars, upVars, sinkVars, envVars,
                   tickVars>>
    /\ UNCHANGED lambdaVars
    /\ UNCHANGED exitVars

Next ==
    \/ DurationComplete
    \/ Capture
    \/ MotionCheck
    \/ SaveMotion
    \/ DetectFull
    \/ DetectEnhanced
    \/ CropSkip
    \/ CropDetect
    \/ CascadeExhausted
    \/ NoBirds
    \/ Validate
    \/ S3Upload
    \/ LocalBackup
    \/ UpdatePrev
    \/ Finally

\* runs of up to MaxTicks frames during which the clock reads RunStart
Spec == Init /\ [][Next]_vars

\* runs of up to TimedTicks frames during which time passes
TimedCapture == Capture /\ ticks < TimedTicks

NextTimed ==
    \/ DurationComplete
    \/ TimedCapture
    \/ MotionCheck
    \/ SaveMotion
    \/ DetectFull
    \/ DetectEnhanced
    \/ CropSkip
    \/ CropDetect
    \/ CascadeExhausted
    \/ NoBirds
    \/ Validate
    \/ S3Upload
    \/ LocalBackup
    \/ UpdatePrev
    \/ Finally
    \/ TimePasses

SpecTimed == Init /\ [][NextTimed]_vars

\* except KeyboardInterrupt: the signal is delivered between any two
\* bytecodes of the try body, and no handler inside the loop catches it
Interrupt ==
    /\ pc \notin {"finally", "done"}
    /\ pc' = "finally"
    /\ UNCHANGED <<frameVars, motVars, detVars, upVars, sinkVars, envVars>>
    /\ UNCHANGED <<tickVars, clockVars>>
    /\ UNCHANGED lambdaVars
    /\ UNCHANGED exitVars

NextInterrupt ==
    \/ DurationComplete
    \/ Capture
    \/ MotionCheck
    \/ SaveMotion
    \/ DetectFull
    \/ DetectEnhanced
    \/ CropSkip
    \/ CropDetect
    \/ CascadeExhausted
    \/ NoBirds
    \/ Validate
    \/ S3Upload
    \/ LocalBackup
    \/ UpdatePrev
    \/ Finally
    \/ Interrupt

\* runs of up to MaxTicks frames that Ctrl+C may end
SpecInterrupt == Init /\ [][NextInterrupt]_vars

\* ------------------------------------------------------------------------
\* run(duration_hours): the duration check with the clock followed
\* ------------------------------------------------------------------------
\* what run may be called with: nothing, or a number of clock units
Durations == {None, <<0>>, <<1>>, <<2>>}

\* if duration_hours: ... if elapsed_hours >= duration_hours: a duration of 0
\* is false in the first test, like None
Expired(hours, elapsed) ==
    /\ hours # None
    /\ hours[1] # 0
    /\ elapsed >= hours[1]

\* elapsed_hours >= duration_hours: break
DurationReached ==
    /\ Expired(duration_hours, now - RunStart)
    /\ DurationComplete

\* the duration check lets the tick begin
DurationCapture ==
    /\ ~Expired(duration_hours, now - RunStart)
    /\ ticks < DurationTicks
    /\ Capture

InitDuration == \E hours \in Durations : Start({}, hours)

\* the steps of run itself
RunStep ==
    \/ DurationReached
    \/ DurationCapture
    \/ MotionCheck
    \/ SaveMotion
    \/ DetectFull
    \/ DetectEnhanced
    \/ CropSkip
    \/ CropDetect
    \/ CascadeExhausted
    \/ NoBirds
    \/ Validate
    \/ S3Upload
    \/ LocalBackup
    \/ UpdatePrev
    \/ Finally

NextDuration ==
    \/ DurationReached
    \/ DurationCapture
    \/ MotionCheck
    \/ SaveMotion
    \/ DetectFull
    \/ DetectEnhanced
    \/ CropSkip
    \/ CropDetect
    \/ CascadeExhausted
    \/ NoBirds
    \/ Validate
    \/ S3Upload
    \/ LocalBackup
    \/ UpdatePrev
    \/ Finally
    \/ TimePasses
    \/ Interrupt

\* runs of up to DurationTicks frames called with a duration: every blocking
\* operation returns, and time.sleep(CHECK_INTERVAL) lets the clock advance
\* in every tick
SpecDuration ==
    /\ InitDuration
    /\ [][NextDuration]_vars
    /\ WF_vars(RunStep)
    /\ SF_vars(TimePasses)

\* ------------------------------------------------------------------------
\* lambda_handler (lambda_function.py): the daily mailer reading the bucket
\* ------------------------------------------------------------------------
runVars == <<pc, frameVars, motVars, detVars, upVars, sinkVars, envVars,
             tickVars, clockVars, exitVars>>

\* what a run of an earlier moment has stored for a Sighting
Earlier(t, n, avg) ==
    CHOOSE o \in Store({}, S3Key(t, FileName(t, n, avg)), SightingOf(0, n, avg)) :
        TRUE

\* "in case there are other files": an object that is not an image of the run
Other(day, ext, size) ==
    [name |-> [date_folder |-> day,
               filename |-> [stamp |-> 0, count |-> 0, conf |-> 0, ext |-> ext]],
     size |-> size,
     body |-> SightingOf(0, 0, [num |-> 0, den |-> 1])]

oSameDay == Earlier(RunStart - 2, 2, [num |-> 1400, den |-> 2])
oNextDay == Earlier(RunStart + 2, 1, [num |-> 500, den |-> 1])
oFolder  == Other(DateOf(RunStart), "", 0)       \* the key "MM-DD-YYYY/"
oNote    == Other(DateOf(RunStart), "txt", 1)
oEmpty   == Other(DateOf(RunStart), "jpg", 0)

\* what the bucket holds when the run starts
Buckets ==
    { {}, {oFolder, oNote, oEmpty}, {oFolder, oSameDay, oNextDay},
      {oEmpty, oNextDay} }

\* (uk_now - timedelta(days=1)).strftime("%m-%d-%Y"): the day before the
\* invocation, which is the day the run started or the day after
Yesterdays == {DateOf(RunStart), DateOf(RunStart) + 1}

\* s3.list_objects_v2(Bucket, Prefix): Key and Size of the objects whose key
\* starts with the date folder
Listing(objects, day) ==
    {[name |-> o.name, size |-> o.size] :
        o \in {x \in objects : x.name.date_folder = day}}

\* variant of Eligible: the size is not looked at
Eligible_AnySize(listed) == {obj \in listed : obj.name.filename.ext = "jpg"}

\* [obj for obj in Contents if obj['Size'] > 0 and obj['Key'].endswith('.jpg')]
Eligible(listed) ==
    {obj \in listed : obj.size > 0 /\ obj.name.filename.ext = "jpg"}

\* return {'statusCode': code, ...}
Return(code) ==
    /\ statusCode' = <<code>>
    /\ handler' = "returned"

\* from the entry of lambda_handler to random.choice, or to an early return
LambdaList ==
    /\ handler = "idle"
    /\ \E day \in Yesterdays, ok \in BOOLEAN :
         LET listed == Listing(s3_objects, day)
         IN  /\ prefix' = <<day>>
             /\ IF ~ok
                THEN /\ Return(500)
                     /\ UNCHANGED <<response, bird_images, selected_image>>
                ELSE /\ response' = <<listed>>
                     /\ IF listed = {}
                        THEN /\ Return(200)
                             /\ UNCHANGED <<bird_images, selected_image>>
                        ELSE /\ bird_images' = Eligible(listed)
                             /\ IF Eligible(listed) = {}
                                THEN /\ Return(200)
                                     /\ UNCHANGED selected_image
                                ELSE /\ \E img \in Eligible(listed) :
                                          selected_image' = <<img>>
                                     /\ handler' = "selected"
                                     /\ UNCHANGED statusCode
    /\ UNCHANGED <<image_data, sent, runVars>>

\* s3.get_object(Bucket, Key)['Body'].read(), or an exception
LambdaGet ==
    /\ handler = "selected"
    /\ \E ok \in BOOLEAN :
         IF ok /\ \E o \in s3_objects : o.name = selected_image[1].name
         THEN /\ image_data' =
                   <<(CHOOSE o \in s3_objects :
                          o.name = selected_image[1].name).body>>
              /\ handler' = "fetched"
              /\ UNCHANGED statusCode
         ELSE /\ Return(500)
              /\ UNCHANGED image_data
    /\ UNCHANGED <<prefix, response, bird_images, selected_image, sent, runVars>>

\* ses.send_raw_email(...) and return 200, or an exception and return 500
LambdaSend ==
    /\ handler = "fetched"
    /\ \E ok \in BOOLEAN :
         IF ok
         THEN /\ sent' = <<[name |-> selected_image[1].name,
                            data |-> image_data[1]]>>
              /\ Return(200)
         ELSE /\ Return(500)
              /\ UNCHANGED sent
    /\ UNCHANGED <<prefix, response, bird_images, selected_image, image_data,
                   runVars>>

\* the invocation is over; the next one starts afresh
LambdaDone ==
    /\ handler = "returned"
    /\ handler' = "idle"
    /\ prefix' = None
    /\ response' = None
    /\ bird_images' = {}
    /\ selected_image' = None
    /\ image_data' = None
    /\ sent' = None
    /\ statusCode' = None
    /\ UNCHANGED runVars

LambdaCapture == Capture /\ ticks < LambdaTicks

InitLambda == \E bucket \in Buckets : Start(bucket, MainDuration)

NextLambda ==
    \/ DurationComplete
    \/ LambdaCapture
    \/ MotionCheck
    \/ SaveMotion
    \/ DetectFull
    \/ DetectEnhanced
    \/ CropSkip
    \/ CropDetect
    \/ CascadeExhausted
    \/ NoBirds
    \/ Validate
    \/ S3Upload
    \/ LocalBackup
    \/ UpdatePrev
    \/ Finally
    \/ LambdaList
    \/ LambdaGet
    \/ LambdaSend
    \/ LambdaDone

\* runs of up to LambdaTicks frames while lambda_handler is invoked
SpecLambda == InitLambda /\ [][NextLambda]_vars

\* ========================================================================
\* Properties
\* ========================================================================

\* positions of a tick after its motion check
AfterCheck ==
    {"save_motion", "detect_full", "detect_enhanced", "detect_crops",
     "check_result", "s3_upload", "local_backup", "update_prev"}

\* the tick in progress has made its motion check and its locals are live
TickChecked ==
    /\ ticks >= 2
    /\ pc \in AfterCheck \/ (pc \in {"finally", "done"} /\ exc)

\* un-padded area of a detection in whole pixels, (x2 - x1) * (y2 - y1)
UnpaddedArea(d) ==
    ((d.x2 \div 2) - (d.x1 \div 2)) * ((d.y2 \div 2) - (d.y1 \div 2))

Survives(d) == UnpaddedArea(d) >= MIN_BOX_AREA

EmittedThisTick == \E i \in 1..Len(sightings) : sightings[i].tick = ticks

\* number of True among the at most 3 most recent motion checks
RecentTrue ==
    LET n == Len(all_motion)
    IN  Cardinality({i \in 1..n : i > n - 3 /\ all_motion[i]})

\* C1: at the end of every tick, a Sighting was emitted in that tick if and
\* only if the persistence filter passed and the classifier returned at least
\* one detection that survives the MIN_BOX_AREA filter; while a tick is still
\* before its storage writes, or was aborted, it has emitted no Sighting, and
\* every Sighting reports at least one bird.
C1_SightingIff ==
    /\ pc = "update_prev" =>
         ( EmittedThisTick <=>
             /\ persistent_motion
             /\ result # None
             /\ \E i \in 1..Len(result[1]) : Survives(result[1][i]) )
    /\ pc \in (AfterCheck \ {"update_prev"}) \cup {"motion"} => ~EmittedThisTick
    /\ exc => ~EmittedThisTick
    /\ \A i \in 1..Len(sightings) : sightings[i].count >= 1
    /\ \A i, j \in 1..Len(sightings) :
         sightings[i].tick = sightings[j].tick => i = j

C1_Witness ==
    /\ pc = "update_prev"
    /\ EmittedThisTick
    /\ persistent_motion
    /\ Len(result[1]) = 3

\* C2: the detector is invoked in a tick only if at least MOTION_PERSISTENCE
\* of the entries of the motion history are True and the tick's own has_motion
\* is True; a run whose motion checks all found no motion has no detector
\* invocation and no Sighting.
C2_DetectorGated ==
    /\ calls # <<>> =>
         /\ TickChecked
         /\ has_motion
         /\ Cardinality({i \in DOMAIN motion_history : motion_history[i]})
              >= MOTION_PERSISTENCE
    /\ (\A i \in 1..Len(all_motion) : ~all_motion[i]) =>
         calls = <<>> /\ sightings = <<>> /\ pc \notin AfterCheck \ {"update_prev"}

C2_Witness ==
    /\ calls # <<>>
    /\ has_motion
    /\ motion_history = <<FALSE, TRUE, TRUE>>

\* C3 (as stated): after two frames whose difference yields exactly one
\* in-band region, with a detector returning one detection of confidence 0.5
\* and area 2000, exactly one Sighting with count 1 and avg_confidence 0.5 has
\* been emitted.
C3_TwoFrames ==
    ( /\ ticks = 2
      /\ pc = "update_prev"
      /\ all_motion = <<TRUE>>
      /\ Len(bboxes) = 1
      /\ stub_only )
    => /\ Len(sightings) = 1
       /\ sightings[1].count = 1
       /\ sightings[1].conf.num * 2 = sightings[1].conf.den * 1000

\* C3 (amended): no Sighting is emitted before the third frame; after three
\* frames whose two differences each yield in-band motion, with a detector
\* returning one detection of confidence 0.5 and area 2000, exactly one
\* Sighting with count 1 and avg_confidence 0.5 has been emitted.
C3_ThreeFrames ==
    /\ ticks <= 2 => sightings = <<>>
    /\ ( /\ ticks = 3
         /\ pc = "update_prev"
         /\ all_motion = <<TRUE, TRUE>>
         /\ stub_only )
       => /\ Len(sightings) = 1
          /\ sightings[1].tick = 3
          /\ sightings[1].count = 1
          /\ sightings[1].conf.num * 2 = sightings[1].conf.den * 1000

C3_Witness ==
    /\ ticks = 3
    /\ pc = "update_prev"
    /\ all_motion = <<TRUE, TRUE>>
    /\ Len(bboxes) = 1
    /\ stub_only
    /\ result = << <<dStub>> >>
    /\ UnpaddedArea(dStub) = 2000
    /\ Len(sightings) = 1

\* C4: the detector invocations of one detect_bird call are the full frame,
\* then the enhanced full frame, then crops in increasing region order; no
\* invocation follows one that returned a detection; when the full-frame
\* invocation returns a detection it is the only invocation of the call.
C4_CascadeOrder ==
    /\ \A i \in 1..Len(calls) :
         /\ i = 1 => calls[i].step = "full"
         /\ i = 2 => calls[i].step = "enhanced"
         /\ i >= 3 => /\ calls[i].step = "crop"
                      /\ calls[i].region \in 1..Len(bboxes)
                      /\ calls[i - 1].step = "crop"
                           => calls[i - 1].region < calls[i].region
         /\ i < Len(calls) => calls[i].n = 0
    /\ (calls # <<>> /\ calls[1].n > 0) =>
         Len(calls) = 1 /\ pc \notin {"detect_enhanced", "detect_crops"}

C4_Witness ==
    /\ pc = "check_result"
    /\ bboxes # <<>>
    /\ Len(calls) = 1
    /\ calls[1].step = "full"
    /\ calls[1].n > 0

\* C5: when detect_bird has returned, its result contains a detection
\* whenever some cascade step reported one, and an empty result is the
\* full-frame result of a cascade in which no step succeeded.
C5_FirstSuccess ==
    pc = "check_result" =>
      /\ (\E i \in 1..Len(calls) : calls[i].n > 0) => Len(result[1]) > 0
      /\ Len(result[1]) = 0 =>
           /\ result = results
           /\ \A i \in 1..Len(calls) : calls[i].n = 0

\* C6 (as stated): a detector invocation that fails counts as no detection;
\* the cascade goes on and the run loop is not aborted by it.
C6_FailureIsNoDetection ==
    (calls # <<>> /\ calls[Len(calls)].raised) =>
      /\ ~exc
      /\ pc \notin {"finally", "done"}

\* C6 (amended): a crop smaller than 50 pixels in height or width is never
\* passed to the detector and the cascade goes on with the next region; a
\* detector invocation that throws is the last invocation of the run: the
\* exception leaves detect_bird without a result, ends the run loop, the
\* camera is stopped and the tick emits no Sighting.
C6_SkipOrPropagate ==
    /\ \A i \in 1..Len(calls) :
         calls[i].step = "crop" =>
           LET b == bboxes[calls[i].region]
           IN  b[3] - b[1] >= 50 /\ b[4] - b[2] >= 50
    /\ (pc = "check_result" /\ Len(calls) >= 2
        /\ \A i \in 1..Len(calls) : calls[i].n = 0) =>
         \A r \in 1..Len(bboxes) :
           (bboxes[r][3] - bboxes[r][1] >= 50 /\ bboxes[r][4] - bboxes[r][2] >= 50)
             => \E i \in 1..Len(calls) :
                  calls[i].step = "crop" /\ calls[i].region = r
    /\ \A i \in 1..Len(calls) :
         calls[i].raised =>
           /\ i = Len(calls)
           /\ exc
           /\ pc \in {"finally", "done"}
           /\ result = None
           /\ ~EmittedThisTick
    /\ pc = "done" => ~camera_running

C6_Witness ==
    /\ pc = "done"
    /\ exc
    /\ Len(calls) = 3
    /\ calls[3].raised
    /\ calls[3].region = 2
    /\ TooSmall(bboxes[1])

\* C7: after each motion check, persistent_motion is true exactly when at
\* least MOTION_PERSISTENCE of the at most 3 most recent has_motion values,
\* the current one included, are True; [True, True, False] is persistent,
\* [True, False, False] is not, and histories with the same number of True
\* entries agree.
C7_PersistentIsCount ==
    TickChecked =>
      /\ persistent_motion = (RecentTrue >= MOTION_PERSISTENCE)
      /\ motion_history = <<TRUE, TRUE, FALSE>> => persistent_motion
      /\ motion_history = <<TRUE, FALSE, FALSE>> => ~persistent_motion
      /\ motion_history \in {<<TRUE, FALSE, TRUE>>, <<FALSE, TRUE, TRUE>>}
           => persistent_motion
      /\ motion_history \in {<<FALSE, TRUE, FALSE>>, <<FALSE, FALSE, TRUE>>}
           => ~persistent_motion

C7_Witness ==
    /\ TickChecked
    /\ motion_history = <<TRUE, TRUE, FALSE>>
    /\ persistent_motion
    /\ ~has_motion

\* C8: the motion history never has more than 3 entries, and after n motion
\* checks it is the has_motion values of the most recent min(n, 3) checks in
\* chronological order.
C8_HistoryWindow ==
    LET n == Len(all_motion)
        k == IF n < 3 THEN n ELSE 3
    IN  /\ Len(motion_history) <= 3
        /\ Len(motion_history) = k
        /\ \A i \in 1..k : motion_history[i] = all_motion[n - k + i]
        /\ n = checks

C8_Witness ==
    /\ Len(all_motion) = 4
    /\ all_motion[1] # all_motion[4]
    /\ motion_history = <<all_motion[2], all_motion[3], all_motion[4]>>

\* upload_to_s3 has filtered the detections of the tick in progress
Validated ==
    /\ pc \in {"s3_upload", "local_backup", "update_prev"}
    /\ result # None
    /\ Len(result[1]) > 0

\* the detections of the result that pass the area test, by position
SurvivorIdx == {i \in 1..Len(result[1]) : Survives(result[1][i])}

RECURSIVE ConfSum(_)
ConfSum(S) ==
    IF S = {} THEN 0
    ELSE LET i == CHOOSE j \in S : TRUE
         IN  result[1][i].conf + ConfSum(S \ {i})

\* C9: the validator keeps a raw detection exactly when its un-padded area
\* in whole pixels is at least MIN_BOX_AREA, in the order of the result: area
\* MIN_BOX_AREA is kept, area MIN_BOX_AREA - 1 is dropped, also when the box
\* padded by 40 pixels is larger than MIN_BOX_AREA.
C9_AreaBoundary ==
    Validated =>
      /\ valid_boxes = SelectSeq(result[1], Survives)
      /\ Len(annotated) = Len(valid_boxes)
      /\ \A i \in 1..Len(result[1]) :
           LET d == result[1][i]
               kept == \E j \in 1..Len(valid_boxes) : valid_boxes[j] = d
           IN  /\ UnpaddedArea(d) = MIN_BOX_AREA => kept
               /\ UnpaddedArea(d) = MIN_BOX_AREA - 1 => ~kept

C9_Witness ==
    /\ pc = "s3_upload"
    /\ result[1] = <<dStub, dSmall, dExact>>
    /\ UnpaddedArea(dExact) = MIN_BOX_AREA
    /\ UnpaddedArea(dSmall) = MIN_BOX_AREA - 1
    /\ valid_boxes = <<dStub, dExact>>
    /\ annotated[2] = <<1850, 990, 1920, 1080>>

\* C10: num_birds is the number of detections that pass the MIN_BOX_AREA
\* filter and avg_conf is the sum of their confidences divided by their
\* number; when none passes avg_conf is 0 and its divisor is never 0; every
\* Sighting carries that count and average.
C10_CountAndMean ==
    /\ avg_conf.den >= 1
    /\ Validated =>
         /\ num_birds = Cardinality(SurvivorIdx)
         /\ IF SurvivorIdx = {} THEN avg_conf.num = 0
            ELSE /\ avg_conf.num = ConfSum(SurvivorIdx)
                 /\ avg_conf.den = Cardinality(SurvivorIdx)
         /\ pc = "update_prev" /\ EmittedThisTick =>
              /\ sightings[Len(sightings)].count = num_birds
              /\ sightings[Len(sightings)].conf = avg_conf

C10_Witness ==
    /\ pc = "update_prev"
    /\ EmittedThisTick
    /\ Len(result[1]) = 3
    /\ num_birds = 2
    /\ avg_conf = [num |-> 1400, den |-> 2]

\* the writes of kind op attempted by the tick in progress
Attempts(op) == {i \in 1..Len(io_log) : io_log[i].op = op}

\* the attempt of kind op of the tick in progress succeeded
Succeeded(op) == \E i \in Attempts(op) : io_log[i].ok

\* the object stored under name by the tick in progress
StoredNow(objects, name) ==
    \E o \in objects : o.name = name /\ o.body.tick = ticks

\* C11: a tick uploads at most once; after a failed upload the local backup
\* is still attempted, upload_to_s3 returns its Sighting and no exception
\* leaves the loop; whatever the outcome of one sink, the other sink holds
\* the Sighting exactly when its own write succeeded.
C11_SinksIndependent ==
    /\ Cardinality(Attempts("s3")) <= 1
    /\ Cardinality(Attempts("local")) <= 1
    /\ Attempts("s3") # {} => ~exc /\ pc \in {"local_backup", "update_prev"}
    /\ (pc = "update_prev" /\ Attempts("s3") # {}) =>
         /\ Cardinality(Attempts("local")) = 1
         /\ \A i \in Attempts("s3"), j \in Attempts("local") : i < j
         /\ EmittedThisTick
         /\ Succeeded("s3") <=> StoredNow(s3_objects, s3_key[1])
         /\ Succeeded("local") <=> StoredNow(local_files, filename[1])
    /\ (pc = "local_backup" /\ Succeeded("s3")) =>
         StoredNow(s3_objects, s3_key[1])

C11_Witness ==
    /\ pc = "update_prev"
    /\ Attempts("s3") # {}
    /\ ~Succeeded("s3")
    /\ Succeeded("local")
    /\ StoredNow(local_files, filename[1])
    /\ ~StoredNow(s3_objects, s3_key[1])

\* C12: the date partition of every Sighting's storage key is the calendar
\* date on which its frame was captured, also when upload_to_s3 is entered
\* after midnight.
C12_DateOfCapture ==
    \A i \in 1..Len(sightings) :
        sightings[i].s3_key.date_folder = DateOf(sightings[i].captured)

\* C13: once the loop has stopped, no Sighting is half-emitted: the tick that
\* was in flight has not uploaded its image to S3 without also attempting the
\* enabled local backup of the same image.
C13_NoHalfEmitted ==
    (pc \in {"finally", "done"} /\ SAVE_LOCAL_BACKUP /\ Succeeded("s3")) =>
        Attempts("local") # {}

\* what outlives a tick apart from prev_frame, MotionHistory and the check
\* counter: the two counters of detections, the three stores and the Sightings
Lasting ==
    <<motion_detections, bird_detections, motion_files, s3_objects,
      local_files, sightings>>

\* the tick in progress went past the motion and persistence gate
PassedGate == TickChecked /\ persistent_motion /\ has_motion

\* the log of a tick whose only write is the raw-motion image
MotionOnly ==
    IF SAVE_ALL_MOTION THEN <<[op |-> "motion", ok |-> TRUE]>> ELSE <<>>

\* every write to a store is logged by the tick that makes it
WritesLogged ==
    (motion_files' # motion_files \/ s3_objects' # s3_objects
       \/ local_files' # local_files)
    => (Len(io_log') = Len(io_log) + 1 /\ pc' # "loop_top")

\* the step that short-circuits a tick, and the end of such a tick, leave
\* what outlives the tick as it was
ShortCircuit ==
    /\ (pc \in {"loop_top", "motion", "check_result"} /\ pc' = "update_prev")
         => UNCHANGED <<bird_detections, motion_files, s3_objects,
                        local_files, sightings>>
    /\ (pc \in {"loop_top", "motion"} /\ pc' = "update_prev")
         => UNCHANGED Lasting
    /\ (pc = "update_prev" /\ pc' = "loop_top") => UNCHANGED Lasting

\* C14: a tick that ends without passing the motion and persistence gate has
\* written nothing and changed no counter of detections, no store and no
\* Sighting; a tick that passed the gate but ends with an empty classifier
\* result or with no valid box has written the raw-motion image and nothing
\* else, and has touched neither S3 nor the local backup.
C14_ShortCircuit ==
    /\ [](pc = "update_prev" =>
            /\ ~PassedGate => (io_log = <<>> /\ calls = <<>>)
            /\ (PassedGate /\ (Len(result[1]) = 0 \/ num_birds = 0)) =>
                 (io_log = MotionOnly /\ ~EmittedThisTick))
    /\ [][WritesLogged /\ ShortCircuit]_vars

C14_Witness ==
    /\ pc = "update_prev"
    /\ PassedGate
    /\ Len(result[1]) > 0
    /\ num_birds = 0
    /\ io_log = MotionOnly
    /\ motion_files > 0

\* positions, in the contours of the motion check of the tick in progress,
\* of those whose area is strictly between the two bounds
Bandwise ==
    {i \in 1..Len(contours) :
        contours[i].area > MIN_CONTOUR_AREA /\ contours[i].area < MAX_CONTOUR_AREA}

\* C15: the regions detect_motion returns are exactly the contours whose area
\* is strictly between MIN_CONTOUR_AREA and MAX_CONTOUR_AREA, has_motion is
\* true iff that list is non-empty, and every bounding box lies in the frame
\* with x1 <= x2 and y1 <= y2.
C15_RegionsInBand ==
    TickChecked =>
        /\ Len(areas) = Cardinality(Bandwise)
        /\ Len(bboxes) = Len(areas)
        /\ {areas[i] : i \in 1..Len(areas)} = {contours[i].area : i \in Bandwise}
        /\ \A i \in 1..Len(areas) :
               areas[i] # MIN_CONTOUR_AREA /\ areas[i] # MAX_CONTOUR_AREA
        /\ has_motion <=> Len(bboxes) > 0
        /\ \A i \in 1..Len(bboxes) :
               /\ 0 <= bboxes[i][1] /\ bboxes[i][1] <= bboxes[i][3]
               /\ bboxes[i][3] <= FRAME_WIDTH
               /\ 0 <= bboxes[i][2] /\ bboxes[i][2] <= bboxes[i][4]
               /\ bboxes[i][4] <= FRAME_HEIGHT

C15_Witness ==
    /\ TickChecked
    /\ contours = <<cLow, cEdge, cHigh>>
    /\ areas = <<cEdge.area>>
    /\ has_motion
    /\ bboxes[1][3] = FRAME_WIDTH
    /\ bboxes[1][4] = FRAME_HEIGHT

\* C16: the validator applied to the list it has produced returns that list,
\* in the same order, with the same count and the same avg_confidence.
C16_ValidatorIdempotent ==
    Validated =>
        LET again == UploadStats(valid_boxes)
        IN  /\ again.valid = valid_boxes
            /\ again.num_birds = num_birds
            /\ again.avg_conf = avg_conf
            /\ again.annotated = annotated

C16_Witness ==
    /\ Validated
    /\ Len(valid_boxes) = 2
    /\ Len(result[1]) = 3
    /\ valid_boxes[2] = dExact
    /\ UploadStats(valid_boxes).valid = valid_boxes

\* the motion checks, at most two, that came right before the latest one
Preceding ==
    {i \in 1..Len(all_motion) : i < Len(all_motion) /\ i >= Len(all_motion) - 2}

\* the latest motion check found motion and the checks right before it found
\* none, or there were none
Flicker ==
    /\ TickChecked
    /\ has_motion
    /\ \A i \in Preceding : ~all_motion[i]

\* C17: a motion check that finds motion after two checks without motion, or
\* at startup after fewer than two checks all without motion, invokes no
\* detector and emits no Sighting.
C17_FlickerRejected ==
    Flicker =>
        /\ ~persistent_motion
        /\ calls = <<>>
        /\ ~EmittedThisTick
        /\ io_log = <<>>
        /\ pc = "update_prev"

C17_Witness ==
    /\ Flicker
    /\ Cardinality(Preceding) = 2
    /\ Len(all_motion) > 3
    /\ all_motion[1]
    /\ pc = "update_prev"

\* C18: a motion check compares the frame of the tick right before with the
\* frame of the current tick; when a tick has ended, whatever gate it passed
\* or failed, prev_frame is the frame that tick captured; the first tick
\* makes no motion check and appends nothing to the motion history, and
\* every later tick makes exactly one.
C18_PreviousFrame ==
    /\ compared # None => compared = <<ticks - 1, ticks>>
    /\ TickChecked => compared # None
    /\ (pc = "loop_top" /\ ticks >= 1) =>
           prev_frame # None /\ prev_frame[1].id = ticks
    /\ (pc \in AfterCheck /\ ticks >= 2) => prev_frame[1].id = ticks - 1
    /\ ticks <= 1 =>
           /\ checks = 0
           /\ motion_history = <<>>
           /\ all_motion = <<>>
           /\ compared = None
    /\ (pc \in AfterCheck /\ ticks >= 1) =>
           checks = ticks - 1 /\ Len(all_motion) = checks

C18_Witness ==
    /\ pc = "loop_top"
    /\ ticks = 3
    /\ all_motion = <<TRUE, FALSE>>
    /\ prev_frame[1].id = 3
    /\ bird_detections = 0

\* the Sightings emitted so far, in pairs, earlier first
Pairs == {p \in (1..Len(sightings)) \X (1..Len(sightings)) : p[1] < p[2]}

\* two Sightings whose names were made in the same wall-clock second from
\* the same count and the same average confidence to two decimals
SameName(a, b) ==
    /\ a.stored \div 2 = b.stored \div 2
    /\ a.count = b.count
    /\ Round2(a.conf) = Round2(b.conf)

\* C19 as stated: any two distinct Sightings have distinct storage keys and
\* distinct local backup paths.
C19_DistinctKeys ==
    \A p \in Pairs :
        /\ sightings[p[1]].s3_key # sightings[p[2]].s3_key
        /\ sightings[p[1]].local_path # sightings[p[2]].local_path

\* C19: two Sightings have the same storage key, and the same local backup
\* path, exactly when their names were made in the same wall-clock second
\* from the same count and the same two-decimal average confidence; each
\* store holds at most one object per name, so a store never holds more
\* objects than there are distinct names among the Sightings, the one in
\* flight included.
C19_SameNameCollides ==
    /\ \A p \in Pairs :
           LET a == sightings[p[1]]
               b == sightings[p[2]]
           IN  /\ (a.s3_key = b.s3_key) <=> SameName(a, b)
               /\ (a.local_path = b.local_path) <=> SameName(a, b)
    /\ \A o1, o2 \in s3_objects : o1.name = o2.name => o1 = o2
    /\ \A o1, o2 \in local_files : o1.name = o2.name => o1 = o2
    /\ Cardinality(s3_objects)
           <= Cardinality({sightings[i].s3_key : i \in 1..Len(sightings)}
                            \cup {s3_key[i] : i \in 1..Len(s3_key)})
    /\ Cardinality(local_files)
           <= Cardinality({sightings[i].local_path : i \in 1..Len(sightings)})

\* two Sightings of the same second, both written to both stores: each store
\* holds the later one only
C19_Witness ==
    /\ Len(sightings) = 2
    /\ sightings[1].s3_key = sightings[2].s3_key
    /\ sightings[1].stored # sightings[2].stored
    /\ pc = "update_prev"
    /\ Succeeded("s3")
    /\ Succeeded("local")
    /\ \A o \in s3_objects : o.body.tick = sightings[2].tick
    /\ \A o \in local_files : o.body.tick = sightings[2].tick
    /\ Cardinality(s3_objects) = 1

\* what lambda_handler listed that is non-empty, ends in .jpg and lies in the
\* date folder it asked for
Fit ==
    IF response = None THEN {}
    ELSE {obj \in response[1] :
             /\ obj.size > 0
             /\ obj.name.filename.ext = "jpg"
             /\ obj.name.date_folder = prefix[1]}

\* C20: an email is sent only when the listed date folder holds an object
\* with Size > 0 whose key ends in .jpg, and what it attaches is one of these
\* objects; when the listing has returned and none of its objects is such,
\* no email is sent and the handler returns statusCode 200; every object the
\* run has stored is such an object of its date folder.
C20_OnlyEligibleMailed ==
    /\ sent # None =>
           /\ \E obj \in Fit : obj.name = sent[1].name
           /\ \E o \in s3_objects : o.name = sent[1].name /\ o.size > 0
           /\ statusCode = <<200>>
    /\ selected_image # None => selected_image[1] \in Fit
    /\ Fit = {} => sent = None
    /\ (handler = "returned" /\ response # None /\ Fit = {}) =>
           statusCode = <<200>>
    /\ \A o \in s3_objects :
           o.body.tick > 0 =>
               /\ o.size > 0
               /\ o.name.filename.ext = "jpg"
               /\ [name |-> o.name, size |-> o.size]
                      \in Eligible(Listing(s3_objects, o.name.date_folder))

\* the folder holds a placeholder, an image of an earlier run and the image
\* the run has just stored; the email carries the latter
C20_Witness ==
    /\ sent # None
    /\ Cardinality(response[1]) = 3
    /\ Cardinality(Fit) = 2
    /\ sent[1].data.tick = 3
    /\ statusCode = <<200>>

\* the tick in progress began when the duration had not elapsed
BeganInTime ==
    (duration_hours # None /\ capture_time # None) =>
        capture_time[1] - RunStart < duration_hours[1]

\* run was called with a duration that the first test of the check takes as
\* true
NonZero == duration_hours # None /\ duration_hours[1] # 0

\* what holds of the runs called with such a duration, and of camera.stop()
\* in all runs
NonZeroExitsAndStopsOnce ==
    /\ [](NonZero => BeganInTime)
    /\ NonZero ~> (pc = "done")
    /\ [](pc = "done" => stops = 1)
    /\ [](pc \notin {"finally", "done"} => stops = 0)

\* C21: a run called with a duration begins no tick once the elapsed time has
\* reached the duration and eventually leaves the loop and returns; however
\* the loop is left, camera.stop() has been called exactly once when run is
\* over, and not before the loop is left.
C21_ExitsAndStopsOnce ==
    /\ []BeganInTime
    /\ (duration_hours # None) ~> (pc = "done")
    /\ [](pc = "done" => stops = 1)
    /\ [](pc \notin {"finally", "done"} => stops = 0)
====
